---------------------------- MODULE Spec2Model ----------------------------
(***************************************************************************)
(* Bacteria evolution simulation: Bacterium, Environment and Simulation    *)
(* (src/bacteria-evolution-sim/src/lib).                                   *)
(*                                                                         *)
(* Numbers.  JavaScript numbers are modelled in fixed point: every real    *)
(* quantity (positions, velocities, traits, energy, field values,          *)
(* environment parameters) is an integer count of hundredths, so 5.0 is    *)
(* 500 and the canvas width 800 is 80000.  Ages, cooldowns, generations,   *)
(* population counts, carryingCapacity and grid indices are plain          *)
(* integers.  Products and quotients round towards minus infinity.  The    *)
(* values NaN and undefined are kept as two reserved numbers that the      *)
(* arithmetic and the comparisons treat as JavaScript does.                *)
(*                                                                         *)
(* Randomness.  Every Math.random() call is an input: a draw in hundredths *)
(* (0..99, because Math.random() < 1) taken from a small named set.        *)
(***************************************************************************)
EXTENDS Integers, Sequences, FiniteSets, TLC

VARIABLES
    bacteria,               \* Simulation.bacteria: sequence of Bacterium records
    environment,            \* Simulation.environment: the Environment object
    initialBacteriaParams,  \* Simulation.initialBacteriaParams: trait name -> seed
    initialPopulation,      \* Simulation.initialPopulation
    running,                \* Simulation.running
    speed,                  \* Simulation.speed
    nextId,                 \* number of Bacterium objects constructed so far (ids)
    lastOp,                 \* history: the operation that produced this state
    outcome,                \* history: "ok", or "TypeError" if that operation threw
    pass,                   \* history: what the last Simulation.update pass did
    sample,                 \* history: the last getNutrientAt / getToxicityAt call
    calls,                  \* history: number of configuration calls made so far
    advances,               \* history: the populations given to Environment.update
                            \* since the Environment was constructed
    given,                  \* history: the argument and the grid draws of the last
                            \* setParameters or update call
    snapshot,               \* history: a value returned by getState that the caller
                            \* kept: as it was returned, and as it reads now
    births                  \* history: the reproduce calls made directly on an agent
                            \* that returned an offspring: the parent's id and age

vars == <<bacteria, environment, initialBacteriaParams, initialPopulation,
          running, speed, nextId, lastOp, outcome, pass, sample, calls, advances,
          given, snapshot, births>>

-----------------------------------------------------------------------------
(* Fixed-point arithmetic with NaN and undefined                           *)

SC == 100

NaN == -999999999

Undefined == -999999998

\* ToNumber(undefined) is NaN
IsNaN(a) == a = NaN \/ a = Undefined

Add(a, b) == IF IsNaN(a) \/ IsNaN(b) THEN NaN ELSE a + b

Sub(a, b) == IF IsNaN(a) \/ IsNaN(b) THEN NaN ELSE a - b

Mul(a, b) == IF IsNaN(a) \/ IsNaN(b) THEN NaN ELSE (a * b) \div SC

\* a / b for a divisor that is a positive number
Div(a, b) == IF IsNaN(a) THEN NaN ELSE (a * SC) \div b

\* every comparison with NaN is false
Lt(a, b) == ~IsNaN(a) /\ ~IsNaN(b) /\ a < b

Le(a, b) == ~IsNaN(a) /\ ~IsNaN(b) /\ a <= b

Abs(a) == IF a < 0 THEN -a ELSE a

\* v || d : d replaces the falsy numbers 0, NaN and undefined
OrDefault(v, d) == IF v = 0 \/ IsNaN(v) THEN d ELSE v

Last(s) == s[Len(s)]

TraitNames == {"size", "speed", "metabolism", "resistance", "lifespan", "mutationRate"}

-----------------------------------------------------------------------------
(* Bacterium (src/bacteria-evolution-sim/src/lib/Bacterium.js)             *)

\* (Math.random() * 2 - 1) * speed, for a draw r
RandomVelocity(r, spd) == Mul(2 * r - SC, spd)

\* new Bacterium(options): vdraw is the pair of draws for vx and vy
Bacterium(options, id, vdraw) ==
    LET spd == OrDefault(options.speed, 100) IN
    [ id |-> id,
      x |-> OrDefault(options.x, 0),
      y |-> OrDefault(options.y, 0),
      size |-> OrDefault(options.size, 500),
      speed |-> spd,
      metabolism |-> OrDefault(options.metabolism, 100),
      resistance |-> OrDefault(options.resistance, 100),
      lifespan |-> OrDefault(options.lifespan, 10000),
      mutationRate |-> OrDefault(options.mutationRate, 10),
      age |-> 0,
      energy |-> 10000,
      alive |-> TRUE,
      reproductionCooldown |-> 0,
      vx |-> RandomVelocity(vdraw[1], spd),
      vy |-> RandomVelocity(vdraw[2], spd) ]

\* a temperature factor whose optimum is 37 instead of 50
calculateTemperatureFactorOptimum37(b, temperature) ==
    LET deviation == Div(Abs(temperature - 3700), 5000)
        resistanceFactor == SC - Mul(b.resistance, 50)
    IN  SC + Mul(deviation, resistanceFactor)

calculateTemperatureFactor(b, temperature) ==
    LET deviation == Div(Abs(temperature - 5000), 5000)
        resistanceFactor == SC - Mul(b.resistance, 50)
    IN  SC + Mul(deviation, resistanceFactor)

calculatePHFactor(b, pH) ==
    LET deviation == Div(Abs(pH - 700), 700)
        resistanceFactor == SC - Mul(b.resistance, 50)
    IN  SC + Mul(deviation, resistanceFactor)

calculateToxicityFactor(b, toxicity) ==
    LET resistanceFactor == SC - Mul(b.resistance, 80)
    IN  Add(SC, Mul(toxicity, resistanceFactor))

absorbNutrients(b, nutrients) ==
    LET absorptionRate == Mul(b.size, 50)
        processingEfficiency == 50 + Mul(b.metabolism, 50)
    IN  Mul(Mul(nutrients, absorptionRate), processingEfficiency)

\* move(environment): mdraw = <<turn, rx, ry>>, the direction is redrawn
\* when the draw turn is below 0.1
move(b, env, mdraw) ==
    LET turn == mdraw[1] < 10
        vx0 == IF turn THEN RandomVelocity(mdraw[2], b.speed) ELSE b.vx
        vy0 == IF turn THEN RandomVelocity(mdraw[3], b.speed) ELSE b.vy
        x0 == b.x + vx0
        y0 == b.y + vy0
        x1 == IF x0 < 0 THEN 0 ELSE IF x0 > env.width THEN env.width ELSE x0
        vx1 == IF x0 < 0 \/ x0 > env.width THEN -vx0 ELSE vx0
        y1 == IF y0 < 0 THEN 0 ELSE IF y0 > env.height THEN env.height ELSE y0
        vy1 == IF y0 < 0 \/ y0 > env.height THEN -vy0 ELSE vy0
    IN  [b EXCEPT !.x = x1, !.y = y1, !.vx = vx1, !.vy = vy1]


\* an update whose agent lives through the step in which its age reaches
\* its lifespan: this.age > this.lifespan
BacteriumUpdateOutlives(b, env, mdraw) ==
    IF ~b.alive THEN [b |-> b, alive |-> FALSE]
    ELSE
      LET age1 == b.age + 1
          cd1 == IF b.reproductionCooldown > 0 THEN b.reproductionCooldown - 1
                 ELSE b.reproductionCooldown
          energyConsumption ==
              Mul(Mul(Mul(Mul(b.size, b.metabolism),
                          calculateTemperatureFactor(b, env.temperature)),
                      calculatePHFactor(b, env.pH)),
                  calculateToxicityFactor(b, env.toxicity))
          energy1 == Add(Sub(b.energy, energyConsumption),
                         absorbNutrients(b, env.nutrients))
          b1 == [b EXCEPT !.age = age1, !.reproductionCooldown = cd1,
                          !.energy = energy1]
      IN  IF Le(energy1, 0) \/ age1 * SC > b.lifespan
          THEN [b |-> [b1 EXCEPT !.alive = FALSE], alive |-> FALSE]
          ELSE [b |-> move(b1, env, mdraw), alive |-> TRUE]

\* Bacterium.update(environment): the record after the call and the value
\* returned; environment carries the local nutrients and toxicity
BacteriumUpdate(b, env, mdraw) ==
    IF ~b.alive THEN [b |-> b, alive |-> FALSE]
    ELSE
      LET age1 == b.age + 1
          cd1 == IF b.reproductionCooldown > 0 THEN b.reproductionCooldown - 1
                 ELSE b.reproductionCooldown
          baseConsumption == Mul(b.size, b.metabolism)
          tempFactor == calculateTemperatureFactor(b, env.temperature)
          pHFactor == calculatePHFactor(b, env.pH)
          toxicityFactor == calculateToxicityFactor(b, env.toxicity)
          energyConsumption ==
              Mul(Mul(Mul(baseConsumption, tempFactor), pHFactor), toxicityFactor)
          energy1 == Add(Sub(b.energy, energyConsumption),
                         absorbNutrients(b, env.nutrients))
          b1 == [b EXCEPT !.age = age1, !.reproductionCooldown = cd1,
                          !.energy = energy1]
      IN  IF Le(energy1, 0) \/ age1 * SC >= b.lifespan
          THEN [b |-> [b1 EXCEPT !.alive = FALSE], alive |-> FALSE]
          ELSE [b |-> move(b1, env, mdraw), alive |-> TRUE]

\* a mutation of up to 200%: the factor can be negative
mutatePropertyWide(b, value, d) ==
    IF d[1] < b.mutationRate
    THEN LET mutationStrength == 200
             change == SC + Mul(2 * d[2] - SC, mutationStrength)
         IN  Mul(value, change)
    ELSE value

\* mutateProperty(value): d = <<p, r>>, p decides whether the value mutates
\* and r how much
mutateProperty(b, value, d) ==
    IF d[1] < b.mutationRate
    THEN LET mutationStrength == 20
             change == SC + Mul(2 * d[2] - SC, mutationStrength)
         IN  Mul(value, change)
    ELSE value

\* a reproduce that does not look at the cooldown
canReproduceIgnoresCooldown(b) ==
    ~(~b.alive \/ Lt(b.energy, 5000))

\* reproduce goes on past its first test:
\* !(!this.alive || this.reproductionCooldown > 0 || this.energy < 50)
canReproduce(b) ==
    ~(~b.alive \/ b.reproductionCooldown > 0 \/ Lt(b.energy, 5000))

\* a parent that rests for 10 steps only
reproduceParentShortRest(b) ==
    [b EXCEPT !.energy = Mul(b.energy, 70), !.reproductionCooldown = 10]

\* Bacterium.reproduce(environment) when it succeeds: the parent afterwards
reproduceParent(b) ==
    [b EXCEPT !.energy = Mul(b.energy, 70), !.reproductionCooldown = 20]

\* Bacterium.reproduce(environment) when it succeeds: the offspring.
\* rdraw.jitter are the two position draws, rdraw.mut the draws of the six
\* mutateProperty calls, rdraw.v the draws of the child's velocity
reproduceChild(b, id, rdraw) ==
    Bacterium([ x |-> b.x + (rdraw.jitter[1] * 10 - 500),
                y |-> b.y + (rdraw.jitter[2] * 10 - 500),
                size |-> mutateProperty(b, b.size, rdraw.mut.size),
                speed |-> mutateProperty(b, b.speed, rdraw.mut.speed),
                metabolism |-> mutateProperty(b, b.metabolism, rdraw.mut.metabolism),
                resistance |-> mutateProperty(b, b.resistance, rdraw.mut.resistance),
                lifespan |-> mutateProperty(b, b.lifespan, rdraw.mut.lifespan),
                mutationRate |-> mutateProperty(b, b.mutationRate, rdraw.mut.mutationRate) ],
              id, rdraw.v)

-----------------------------------------------------------------------------
(* Environment (src/bacteria-evolution-sim/src/lib/Environment.js)         *)

gridSize == 20

PopulationHistoryLimit == 1000

TraitHistoryLimit == 1000

ParamNames == {"width", "height", "temperature", "pH", "nutrients", "toxicity",
               "antibiotics", "carryingCapacity"}

\* options.k of a partial options object
Get(options, k) == IF k \in DOMAIN options THEN options[k] ELSE Undefined

\* options.k !== undefined ? options.k : d
IfDefined(v, d) == IF v # Undefined THEN v ELSE d

\* The draws of one grid regeneration are named; NutrientRollAt gives the
\* three draws <<u, a, b>> of cell (x, y), ToxicityRollAt the two draws <<u, h>>
NutrientRolls == {"plain", "patchy"}

NutrientRollAt(rolls, x, y) ==
    IF rolls = "plain" THEN <<50, 50, 50>>
    ELSE IF (x + y) % 2 = 0 THEN <<99, 5, 50>> ELSE <<0, 50, 5>>

ToxicityRolls == {"plain", "hotspots"}

ToxicityRollAt(rolls, x, y) ==
    IF rolls = "plain" THEN <<50, 50>>
    ELSE IF (x + y) % 2 = 0 THEN <<99, 2>> ELSE <<0, 50>>

\* One cell of generateNutrientDistribution: roll = <<u, a, b>> are the
\* three Math.random() calls made for the cell
NutrientCell(nutrients, roll) ==
    LET v == Mul(nutrients, 50 + roll[1])
    IN  IF roll[2] < 10 THEN Mul(v, 200)
        ELSE IF roll[3] < 10 THEN Mul(v, 50)
        ELSE v

\* One cell of generateToxicityDistribution: roll = <<u, h>>
ToxicityCell(toxicity, roll) ==
    LET v == Mul(toxicity, 50 + roll[1])
    IN  IF roll[2] < 5 THEN Mul(v, 300) ELSE v

\* A grid is kept as the base level and the draws it was generated from;
\* grid[x][y] is computed from them when the cell is read.  rolls[x][y] are
\* the draws of cell (x, y)
generateNutrientDistribution(env, rolls) ==
    [ grid |-> [ kind |-> "nutrient", level |-> env.nutrients, rolls |-> rolls ],
      cellWidth |-> env.width \div gridSize,
      cellHeight |-> env.height \div gridSize,
      gridSize |-> gridSize ]

generateToxicityDistribution(env, rolls) ==
    [ grid |-> [ kind |-> "toxicity", level |-> env.toxicity, rolls |-> rolls ],
      cellWidth |-> env.width \div gridSize,
      cellHeight |-> env.height \div gridSize,
      gridSize |-> gridSize ]

\* the indices x for which grid[x] exists, and y for which grid[x][y] exists
GridIndices == 0..(gridSize - 1)

\* grid[x][y] for x and y in GridIndices
GridCell(grid, x, y) ==
    IF grid.kind = "nutrient"
    THEN NutrientCell(grid.level, NutrientRollAt(grid.rolls, x, y))
    ELSE ToxicityCell(grid.level, ToxicityRollAt(grid.rolls, x, y))

EmptyStatistics ==
    [ populationHistory |-> << >>,
      averageTraits |-> [t \in TraitNames |-> << >>],
      extinctionEvents |-> << >> ]

\* new Environment(options)
Environment(options, nrolls, trolls) ==
    LET e0 == [ width |-> OrDefault(Get(options, "width"), 80000),
                height |-> OrDefault(Get(options, "height"), 60000),
                temperature |-> IfDefined(Get(options, "temperature"), 5000),
                pH |-> IfDefined(Get(options, "pH"), 700),
                nutrients |-> IfDefined(Get(options, "nutrients"), 500),
                toxicity |-> IfDefined(Get(options, "toxicity"), 0),
                antibiotics |-> IfDefined(Get(options, "antibiotics"), 0),
                carryingCapacity |-> OrDefault(Get(options, "carryingCapacity"), 200) ]
    IN  [ width |-> e0.width, height |-> e0.height,
          temperature |-> e0.temperature, pH |-> e0.pH,
          nutrients |-> e0.nutrients, toxicity |-> e0.toxicity,
          antibiotics |-> e0.antibiotics, carryingCapacity |-> e0.carryingCapacity,
          nutrientDistribution |-> generateNutrientDistribution(e0, nrolls),
          toxicityDistribution |-> generateToxicityDistribution(e0, trolls),
          generation |-> 0,
          statistics |-> EmptyStatistics ]

\* a push that drops the newest value above the limit
PushCappedDropsNewest(h, v, limit) ==
    LET h1 == Append(h, v) IN IF Len(h1) > limit THEN SubSeq(h1, 1, limit) ELSE h1

\* push one value on a history and shift the oldest out above the limit
PushCapped(h, v, limit) ==
    LET h1 == Append(h, v) IN IF Len(h1) > limit THEN Tail(h1) ELSE h1

RECURSIVE SumTrait(_, _, _)
SumTrait(bs, t, i) == IF i > Len(bs) THEN 0 ELSE bs[i][t] + SumTrait(bs, t, i + 1)

\* statistics that average the traits of an empty population too: 0 / 0
updateStatisticsAveragesEmpty(stats, bs) ==
    [stats EXCEPT
        !.populationHistory = PushCapped(@, Len(bs), PopulationHistoryLimit),
        !.averageTraits = [t \in TraitNames |->
            PushCapped(stats.averageTraits[t],
                       IF Len(bs) = 0 THEN NaN ELSE SumTrait(bs, t, 1) \div Len(bs),
                       TraitHistoryLimit)]]

\* statistics that record the population only when it is not empty
updateStatisticsSkipsEmpty(stats, bs) ==
    IF Len(bs) > 0
    THEN [stats EXCEPT
            !.populationHistory = PushCapped(@, Len(bs), PopulationHistoryLimit),
            !.averageTraits = [t \in TraitNames |->
                PushCapped(stats.averageTraits[t],
                           SumTrait(bs, t, 1) \div Len(bs), TraitHistoryLimit)]]
    ELSE stats

\* statistics that record the average of the size only
updateStatisticsSizeOnly(stats, bs) ==
    LET ph == PushCapped(stats.populationHistory, Len(bs), PopulationHistoryLimit)
    IN  IF Len(bs) > 0
        THEN [stats EXCEPT
                !.populationHistory = ph,
                !.averageTraits.size =
                    PushCapped(@, SumTrait(bs, "size", 1) \div Len(bs), TraitHistoryLimit)]
        ELSE [stats EXCEPT !.populationHistory = ph]

\* Environment.updateStatistics(bacteria)
updateStatistics(stats, bs) ==
    LET ph == PushCapped(stats.populationHistory, Len(bs), PopulationHistoryLimit)
    IN  IF Len(bs) > 0
        THEN [stats EXCEPT
                !.populationHistory = ph,
                !.averageTraits = [t \in TraitNames |->
                    PushCapped(stats.averageTraits[t],
                               SumTrait(bs, t, 1) \div Len(bs), TraitHistoryLimit)]]
        ELSE [stats EXCEPT !.populationHistory = ph]

\* this.generation % 100 === 0
NutrientDue(gen) == gen % 100 = 0

\* a toxicity field regenerated on the cadence of the nutrient field
ToxicityDueWithNutrients(gen) == gen % 100 = 0

\* this.generation % 150 === 0
ToxicityDue(gen) == gen % 150 = 0

\* Environment.update(bacteria)
EnvironmentUpdate(env, bs, nrolls, trolls) ==
    LET gen == env.generation + 1
        stats1 == updateStatistics(env.statistics, bs)
        nd == IF NutrientDue(gen) THEN generateNutrientDistribution(env, nrolls)
              ELSE env.nutrientDistribution
        td == IF ToxicityDue(gen) THEN generateToxicityDistribution(env, trolls)
              ELSE env.toxicityDistribution
        currentPopulation == Len(bs)
        previousPopulation ==
            IF Len(stats1.populationHistory) > 0
            THEN Last(stats1.populationHistory)
            ELSE currentPopulation
        stats2 ==
            IF previousPopulation > 10 /\ currentPopulation * 2 <= previousPopulation
            THEN [stats1 EXCEPT !.extinctionEvents =
                     Append(@, [ generation |-> gen,
                                 previousPopulation |-> previousPopulation,
                                 currentPopulation |-> currentPopulation ])]
            ELSE stats1
    IN  [env EXCEPT !.generation = gen, !.statistics = stats2,
                    !.nutrientDistribution = nd, !.toxicityDistribution = td]

Min(a, b) == IF a <= b THEN a ELSE b

\* Math.min(Math.floor(x / cellWidth), gridSize - 1)
GridIndex(x, cell, size) == Min(x \div cell, size - 1)

\* grid[gridX][gridY]: reading a property of undefined throws TypeError,
\* reading a missing index of an array gives undefined
SampleThrows(dist, x, y) ==
    GridIndex(x, dist.cellWidth, dist.gridSize) \notin GridIndices

SampleValue(dist, x, y) ==
    LET gridX == GridIndex(x, dist.cellWidth, dist.gridSize)
        gridY == GridIndex(y, dist.cellHeight, dist.gridSize)
    IN  IF gridY \in GridIndices THEN GridCell(dist.grid, gridX, gridY)
        ELSE Undefined

getNutrientAt(env, x, y) == SampleValue(env.nutrientDistribution, x, y)

getToxicityAt(env, x, y) == SampleValue(env.toxicityDistribution, x, y)

\* a setParameters that regenerates both fields on every call
setParametersRegenerates(env, params, nrolls, trolls) ==
    LET e1 == [env EXCEPT
                 !.temperature = IfDefined(Get(params, "temperature"), @),
                 !.pH = IfDefined(Get(params, "pH"), @),
                 !.nutrients = IfDefined(Get(params, "nutrients"), @),
                 !.toxicity = IfDefined(Get(params, "toxicity"), @),
                 !.antibiotics = IfDefined(Get(params, "antibiotics"), @),
                 !.carryingCapacity = IfDefined(Get(params, "carryingCapacity"), @)]
        e2 == [e1 EXCEPT
                 !.nutrientDistribution = generateNutrientDistribution(e1, nrolls),
                 !.toxicityDistribution = generateToxicityDistribution(e1, trolls)]
    IN  [e2 EXCEPT
           !.width = IfDefined(Get(params, "width"), @),
           !.height = IfDefined(Get(params, "height"), @)]

\* Environment.setParameters(params)
setParameters(env, params, nrolls, trolls) ==
    LET e1 == [env EXCEPT
                 !.temperature = IfDefined(Get(params, "temperature"), @),
                 !.pH = IfDefined(Get(params, "pH"), @),
                 !.nutrients = IfDefined(Get(params, "nutrients"), @)]
        e2 == IF Get(params, "nutrients") # Undefined
              THEN [e1 EXCEPT !.nutrientDistribution =
                                 generateNutrientDistribution(e1, nrolls)]
              ELSE e1
        e3 == [e2 EXCEPT !.toxicity = IfDefined(Get(params, "toxicity"), @)]
        e4 == IF Get(params, "toxicity") # Undefined
              THEN [e3 EXCEPT !.toxicityDistribution =
                                 generateToxicityDistribution(e3, trolls)]
              ELSE e3
    IN  [e4 EXCEPT
           !.antibiotics = IfDefined(Get(params, "antibiotics"), @),
           !.carryingCapacity = IfDefined(Get(params, "carryingCapacity"), @),
           !.width = IfDefined(Get(params, "width"), @),
           !.height = IfDefined(Get(params, "height"), @)]

\* Environment.getStatistics().currentParameters
currentParameters(env) ==
    [ temperature |-> env.temperature, pH |-> env.pH,
      nutrients |-> env.nutrients, toxicity |-> env.toxicity,
      antibiotics |-> env.antibiotics, carryingCapacity |-> env.carryingCapacity ]

-----------------------------------------------------------------------------
(* Inputs: the Math.random() draws and the arguments of the calls          *)

MaxGeneration == 2

MaxCalls == 1

NoParams == [k \in {} |-> 0]

\* draws of the two grids of one new Environment
GridRolls == { <<"plain", "plain">>, <<"patchy", "hotspots">> }

\* draws of a regeneration: only those of a grid that is regenerated count
RollsIf(due, rolls) == IF due THEN rolls ELSE {"plain"}

\* draws of one new Bacterium in initializePopulation: position, the six
\* random trait baselines, velocity
BacteriumDraws ==
    { [ pos |-> <<0, 50>>, trait |-> [t \in TraitNames |-> 50], v |-> <<50, 50>> ],
      [ pos |-> <<50, 0>>, trait |-> [t \in TraitNames |-> 0], v |-> <<0, 75>> ] }

\* draws of one initializePopulation: the agents see the same sequence of draws
InitDraws(n) == { [i \in 1..n |-> d] : d \in BacteriumDraws }

NoMutation == [t \in TraitNames |-> <<99, 50>>]

\* draws of one agent in one Simulation.update pass: m = <<turn, rx, ry>> for
\* Bacterium.move, r for Bacterium.reproduce and the child's constructor
\* (jitter of the position, the six mutateProperty calls, the velocity)
AgentDraws ==
    { [ m |-> <<50, 50, 50>>,
        r |-> [ jitter |-> <<50, 50>>, mut |-> NoMutation, v |-> <<50, 50>> ] ],
      [ m |-> <<50, 50, 50>>,
        r |-> [ jitter |-> <<0, 99>>, mut |-> NoMutation, v |-> <<50, 50>> ] ],
      [ m |-> <<5, 0, 99>>,
        r |-> [ jitter |-> <<50, 0>>, mut |-> [t \in TraitNames |-> <<0, 0>>],
                v |-> <<75, 0>> ] ] }

\* draws of one Simulation.update pass: the agents of one pass see the same
\* sequence of draws
PassDraws(n) == { [i \in 1..n |-> d] : d \in AgentDraws }

-----------------------------------------------------------------------------
(* Simulation (src/bacteria-evolution-sim/src/lib/Simulation.js)           *)

\* the options object of one new Bacterium in initializePopulation
SeedOptions(seed, env, d) ==
    [ x |-> Mul(d.pos[1], env.width),
      y |-> Mul(d.pos[2], env.height),
      size |-> OrDefault(Get(seed, "size"), 500 + (d.trait.size * 3 - 150)),
      speed |-> OrDefault(Get(seed, "speed"), 100 + (Mul(d.trait.speed, 60) - 30)),
      metabolism |-> OrDefault(Get(seed, "metabolism"),
                               100 + (Mul(d.trait.metabolism, 40) - 20)),
      resistance |-> OrDefault(Get(seed, "resistance"),
                               100 + (Mul(d.trait.resistance, 40) - 20)),
      lifespan |-> OrDefault(Get(seed, "lifespan"),
                             10000 + (d.trait.lifespan * 40 - 2000)),
      mutationRate |-> OrDefault(Get(seed, "mutationRate"),
                                 10 + (Mul(d.trait.mutationRate, 4) - 2)) ]

\* a population seeded from the random baselines whatever the seed says
initializePopulationIgnoresSeed(count, seed, env, firstId, draws) ==
    [i \in 1..count |-> Bacterium(SeedOptions(NoParams, env, draws[i]), firstId + i - 1,
                                  draws[i].v)]

\* a population built by a loop that runs once more: i <= initialPopulation
initializePopulationOneMore(count, seed, env, firstId, draws) ==
    [i \in 1..(count + 1) |->
        LET d == IF i > count THEN CHOOSE e \in BacteriumDraws : TRUE ELSE draws[i]
        IN  Bacterium(SeedOptions(seed, env, d), firstId + i - 1, d.v)]

\* Simulation.initializePopulation(): draws[i] are the draws of agent i
initializePopulation(count, seed, env, firstId, draws) ==
    [i \in 1..count |-> Bacterium(SeedOptions(seed, env, draws[i]), firstId + i - 1,
                                  draws[i].v)]

\* the environment object handed to Bacterium.update and reproduce
localEnvironment(env, b) ==
    [ width |-> env.width, height |-> env.height,
      temperature |-> env.temperature, pH |-> env.pH,
      nutrients |-> getNutrientAt(env, b.x, b.y),
      toxicity |-> getToxicityAt(env, b.x, b.y) ]

\* a capacity test that lets every surviving agent try to reproduce
ReproductionGateOpen(startCount, soFar, capacity) == TRUE

\* the capacity test that guards bacterium.reproduce in Simulation.update
ReproductionGate(startCount, soFar, capacity) == startCount < capacity

\* a loop that also visits the agents spawned in the pass: every offspring is
\* updated once, in the cell of its parent, before the pass ends
RECURSIVE UpdateLoopVisitsSpawned(_, _, _, _, _)
UpdateLoopVisitsSpawned(bs, env, draws, i, acc) ==
    IF i > Len(bs) THEN acc
    ELSE
      LET b == bs[i] IN
      IF SampleThrows(env.nutrientDistribution, b.x, b.y)
         \/ SampleThrows(env.toxicityDistribution, b.x, b.y)
      THEN [acc EXCEPT !.threw = TRUE,
                       !.old = @ \o SubSeq(bs, i, Len(bs))]
      ELSE
        LET loc == localEnvironment(env, b)
            u == BacteriumUpdate(b, loc, draws[i].m)
            retained == Append(acc.new, u.b)
            attempt == u.alive /\ ReproductionGate(Len(bs), Len(retained),
                                                   env.carryingCapacity)
            born == attempt /\ canReproduce(u.b)
            parent == IF born THEN reproduceParent(u.b) ELSE u.b
            child == BacteriumUpdate(reproduceChild(u.b, acc.id, draws[i].r),
                                     loc, draws[i].m).b
            new1 == IF ~u.alive THEN acc.new
                    ELSE IF born THEN Append(Append(acc.new, parent), child)
                    ELSE Append(acc.new, parent)
        IN  UpdateLoopVisitsSpawned(bs, env, draws, i + 1,
               [ new |-> new1,
                 old |-> Append(acc.old, parent),
                 id |-> IF born THEN acc.id + 1 ELSE acc.id,
                 attempts |-> IF attempt THEN Append(acc.attempts, Len(retained))
                              ELSE acc.attempts,
                 updated |-> (IF b.alive THEN acc.updated \cup {b.id} ELSE acc.updated)
                             \cup (IF born THEN {acc.id} ELSE {}),
                 spawned |-> IF born THEN acc.spawned \cup {acc.id} ELSE acc.spawned,
                 threw |-> FALSE ])

\* The loop of Simulation.update over this.bacteria, from agent i on.
\* acc.new is newBacteria, acc.old the agents of this.bacteria as the loop
\* has left them, acc.id the next free id, acc.attempts the value of
\* newBacteria.length at each reproduce call, acc.threw whether sampling threw
RECURSIVE UpdateLoop(_, _, _, _, _)
UpdateLoop(bs, env, draws, i, acc) ==
    IF i > Len(bs) THEN acc
    ELSE
      LET b == bs[i] IN
      IF SampleThrows(env.nutrientDistribution, b.x, b.y)
         \/ SampleThrows(env.toxicityDistribution, b.x, b.y)
      THEN [acc EXCEPT !.threw = TRUE,
                       !.old = @ \o SubSeq(bs, i, Len(bs))]
      ELSE
        LET loc == localEnvironment(env, b)
            u == BacteriumUpdate(b, loc, draws[i].m)
            retained == Append(acc.new, u.b)
            attempt == u.alive /\ ReproductionGate(Len(bs), Len(retained),
                                                   env.carryingCapacity)
            born == attempt /\ canReproduce(u.b)
            parent == IF born THEN reproduceParent(u.b) ELSE u.b
            child == reproduceChild(u.b, acc.id, draws[i].r)
            new1 == IF ~u.alive THEN acc.new
                    ELSE IF born THEN Append(Append(acc.new, parent), child)
                    ELSE Append(acc.new, parent)
        IN  UpdateLoop(bs, env, draws, i + 1,
               [ new |-> new1,
                 old |-> Append(acc.old, parent),
                 id |-> IF born THEN acc.id + 1 ELSE acc.id,
                 attempts |-> IF attempt THEN Append(acc.attempts, Len(retained))
                              ELSE acc.attempts,
                 updated |-> IF b.alive THEN acc.updated \cup {b.id} ELSE acc.updated,
                 spawned |-> IF born THEN acc.spawned \cup {acc.id} ELSE acc.spawned,
                 threw |-> FALSE ])

\* the traits in the order statistics.averageTraits lists them
TraitOrder == <<"size", "speed", "metabolism", "resistance", "lifespan", "mutationRate">>

TraitIndex(t) == CHOOSE i \in 1..Len(TraitOrder) : TraitOrder[i] = t

\* what one Environment.update call was given: the population count and
\* the mean of each trait over the population
Advance(bs) ==
    [ n |-> Len(bs),
      mean |-> [i \in 1..Len(TraitOrder) |->
                  IF Len(bs) = 0 THEN 0
                  ELSE SumTrait(bs, TraitOrder[i], 1) \div Len(bs)] ]

NoPass == [ ran |-> FALSE, startCount |-> 0, capacity |-> 0, attempts |-> << >>,
            updated |-> {}, spawned |-> {} ]

NoSample == [ kind |-> "none", x |-> 0, y |-> 0, gridX |-> 0, gridY |-> 0,
              value |-> 0 ]

NoGiven == [ params |-> NoParams, nrolls |-> "plain", trolls |-> "plain" ]

NoSnapshot == [ taken |-> FALSE ]

\* options of the Simulation constructor
InitEnvironmentParams ==
    { NoParams,
      [ temperature |-> 5000, pH |-> 700, nutrients |-> 500, toxicity |-> 0,
        antibiotics |-> 0, carryingCapacity |-> 3, width |-> 40000,
        height |-> 30000 ] }

InitBacteriaParams == { NoParams, [ lifespan |-> 100, size |-> 800 ] }

InitPopulations == {0, 2}

\* arguments of the setters
EnvironmentParamInputs ==
    { [ width |-> 100000, height |-> 70000 ],
      [ nutrients |-> 0, toxicity |-> 50, temperature |-> 10000,
        carryingCapacity |-> 1 ] }

BacteriaParamInputs == { [ lifespan |-> 100, size |-> 800 ] }

PopulationInputs == {1}

SpeedInputs == {2}

\* new Simulation(options)
Init ==
    \E ep \in InitEnvironmentParams, bp \in InitBacteriaParams,
       n \in InitPopulations, rolls \in GridRolls :
      \E draws \in InitDraws(n) :
        /\ environment = Environment(ep, rolls[1], rolls[2])
        /\ initialBacteriaParams = bp
        /\ initialPopulation = n
        /\ running = FALSE
        /\ speed = 100
        /\ bacteria = initializePopulation(n, bp, environment, 1, draws)
        /\ nextId = n + 1
        /\ lastOp = "constructor"
        /\ outcome = "ok"
        /\ pass = NoPass
        /\ sample = NoSample
        /\ calls = 0
        /\ advances = << >>
        /\ given = NoGiven
        /\ snapshot = NoSnapshot
        /\ births = << >>

\* a start that flips the flag instead of setting it
StartToggles ==
    /\ running' = ~running
    /\ lastOp' = "start"
    /\ outcome' = "ok"
    /\ pass' = NoPass
    /\ UNCHANGED <<bacteria, environment, initialBacteriaParams, initialPopulation,
                   speed, nextId, sample, calls, advances, given, snapshot,
                   births>>

\* Simulation.start()
Start ==
    /\ running' = TRUE
    /\ lastOp' = "start"
    /\ outcome' = "ok"
    /\ pass' = NoPass
    /\ UNCHANGED <<bacteria, environment, initialBacteriaParams, initialPopulation,
                   speed, nextId, sample, calls, advances,
                   given, snapshot, births>>

\* Simulation.pause()
Pause ==
    /\ running' = FALSE
    /\ lastOp' = "pause"
    /\ outcome' = "ok"
    /\ pass' = NoPass
    /\ UNCHANGED <<bacteria, environment, initialBacteriaParams, initialPopulation,
                   speed, nextId, sample, calls, advances,
                   given, snapshot, births>>

\* the options reset() passes to new Environment: currentParameters spread,
\* then width and height read from currentParameters
ResetOptions(env) ==
    LET currentEnvParams == currentParameters(env)
    IN  [k \in DOMAIN currentEnvParams \cup {"width", "height"} |->
            IF k \in {"width", "height"} THEN Get(currentEnvParams, k)
            ELSE currentEnvParams[k]]

\* Simulation.reset()
Reset ==
    /\ calls < MaxCalls
    /\ \E rolls \in GridRolls :
         \E draws \in InitDraws(initialPopulation) :
           /\ environment' = Environment(ResetOptions(environment), rolls[1], rolls[2])
           /\ bacteria' = initializePopulation(initialPopulation, initialBacteriaParams,
                                               environment', nextId, draws)
    /\ nextId' = nextId + initialPopulation
    /\ calls' = calls + 1
    /\ lastOp' = "reset"
    /\ outcome' = "ok"
    /\ pass' = NoPass
    /\ advances' = << >>
    /\ UNCHANGED <<initialBacteriaParams, initialPopulation, running, speed, sample,
                   given, snapshot, births>>

\* Simulation.setSpeed(speed)
SetSpeed ==
    /\ calls < MaxCalls
    /\ \E s \in SpeedInputs : speed' = s * SC
    /\ calls' = calls + 1
    /\ lastOp' = "setSpeed"
    /\ outcome' = "ok"
    /\ pass' = NoPass
    /\ UNCHANGED <<bacteria, environment, initialBacteriaParams, initialPopulation,
                   running, nextId, sample, advances,
                   given, snapshot, births>>

\* a guard that never returns early
UpdateNeverReturnsEarly(isRunning) == FALSE

\* if (!this.running) return this.getState()
UpdateReturnsEarly(isRunning) == ~isRunning

\* Environment.getStatistics() read through: a new object that holds the
\* three members of this.statistics, the generation and the parameters
getStatistics(env) ==
    [ populationHistory |-> env.statistics.populationHistory,
      averageTraits |-> env.statistics.averageTraits,
      extinctionEvents |-> env.statistics.extinctionEvents,
      generation |-> env.generation,
      currentParameters |-> currentParameters(env) ]

\* Simulation.getState() read through: everything that can be read from the
\* returned object
getState(bs, env, isRunning, spd) ==
    [ bacteria |-> bs,
      environment |-> [ generation |-> env.generation,
                        parameters |-> [k \in ParamNames |-> env[k]] ],
      running |-> isRunning,
      speed |-> spd,
      statistics |-> getStatistics(env) ]

\* an object of a kept array after a pass: the pass changes its objects in
\* place, left are the objects of this.bacteria as the pass left them
ObjectAfter(o, left) ==
    IF \E j \in DOMAIN left : left[j].id = o.id
    THEN left[CHOOSE j \in DOMAIN left : left[j].id = o.id]
    ELSE o

\* What a kept getState value reads after a pass.  bacteria is the array
\* that was this.bacteria and holds the same Bacterium objects; environment
\* is this.environment itself; populationHistory, averageTraits and
\* extinctionEvents are the arrays of this.statistics, which push and shift
\* change in place; running, speed, statistics.generation and
\* statistics.currentParameters were copied when the value was built
Retained(snap, left, env) ==
    IF ~snap.taken THEN snap
    ELSE [snap EXCEPT
            !.now.bacteria = [i \in DOMAIN @ |-> ObjectAfter(@[i], left)],
            !.now.environment = [ generation |-> env.generation,
                                  parameters |-> [k \in ParamNames |-> env[k]] ],
            !.now.statistics.populationHistory = env.statistics.populationHistory,
            !.now.statistics.averageTraits = env.statistics.averageTraits,
            !.now.statistics.extinctionEvents = env.statistics.extinctionEvents]

\* an update that advances the environment once more when the speed
\* multiplier is 2 or above
UpdateStepBySpeed ==
    /\ lastOp' = "update"
    /\ IF UpdateReturnsEarly(running)
       THEN /\ outcome' = "ok"
            /\ pass' = NoPass
            /\ UNCHANGED <<bacteria, environment, nextId, advances, given, snapshot>>
       ELSE /\ \E nr \in RollsIf(NutrientDue(environment.generation + 1), NutrientRolls),
                  tr \in RollsIf(ToxicityDue(environment.generation + 1), ToxicityRolls) :
                 /\ environment' =
                      IF speed >= 2 * SC
                      THEN EnvironmentUpdate(
                               EnvironmentUpdate(environment, bacteria, nr, tr),
                               bacteria, nr, tr)
                      ELSE EnvironmentUpdate(environment, bacteria, nr, tr)
                 /\ given' = [ params |-> NoParams, nrolls |-> nr, trolls |-> tr ]
            /\ advances' = Append(advances, Advance(bacteria))
            /\ \E draws \in PassDraws(Len(bacteria)) :
                 \E r \in { UpdateLoop(bacteria, environment', draws, 1,
                               [ new |-> << >>, old |-> << >>, id |-> nextId,
                                 attempts |-> << >>, updated |-> {}, spawned |-> {},
                                 threw |-> FALSE ]) } :
                     /\ bacteria' = IF r.threw THEN r.old ELSE r.new
                     /\ nextId' = r.id
                     /\ outcome' = IF r.threw THEN "TypeError" ELSE "ok"
                     /\ pass' = [ ran |-> TRUE, startCount |-> Len(bacteria),
                                  capacity |-> environment'.carryingCapacity,
                                  attempts |-> r.attempts, updated |-> r.updated,
                                  spawned |-> r.spawned ]
                     /\ snapshot' = Retained(snapshot, r.old, environment')
    /\ UNCHANGED <<initialBacteriaParams, initialPopulation, running, speed,
                   sample, calls, births>>

\* Simulation.update()
UpdateStep ==
    /\ lastOp' = "update"
    /\ IF UpdateReturnsEarly(running)
       THEN /\ outcome' = "ok"
            /\ pass' = NoPass
            /\ UNCHANGED <<bacteria, environment, nextId, advances, given, snapshot>>
       ELSE /\ \E nr \in RollsIf(NutrientDue(environment.generation + 1), NutrientRolls),
                  tr \in RollsIf(ToxicityDue(environment.generation + 1), ToxicityRolls) :
                 /\ environment' = EnvironmentUpdate(environment, bacteria, nr, tr)
                 /\ given' = [ params |-> NoParams, nrolls |-> nr, trolls |-> tr ]
            /\ advances' = Append(advances, Advance(bacteria))
            /\ \E draws \in PassDraws(Len(bacteria)) :
                 \E r \in { UpdateLoop(bacteria, environment', draws, 1,
                               [ new |-> << >>, old |-> << >>, id |-> nextId,
                                 attempts |-> << >>, updated |-> {}, spawned |-> {},
                                 threw |-> FALSE ]) } :
                     /\ bacteria' = IF r.threw THEN r.old ELSE r.new
                     /\ nextId' = r.id
                     /\ outcome' = IF r.threw THEN "TypeError" ELSE "ok"
                     /\ pass' = [ ran |-> TRUE, startCount |-> Len(bacteria),
                                  capacity |-> environment'.carryingCapacity,
                                  attempts |-> r.attempts, updated |-> r.updated,
                                  spawned |-> r.spawned ]
                     /\ snapshot' = Retained(snapshot, r.old, environment')
    /\ UNCHANGED <<initialBacteriaParams, initialPopulation, running, speed,
                   sample, calls, births>>

\* Simulation.update(), for at most MaxGeneration generations
Update ==
    /\ running => environment.generation < MaxGeneration
    /\ UpdateStep

\* Simulation.setEnvironmentParameters(params)
SetEnvironmentParameters ==
    /\ calls < MaxCalls
    /\ \E params \in EnvironmentParamInputs :
         \E nr \in RollsIf("nutrients" \in DOMAIN params, NutrientRolls),
            tr \in RollsIf("toxicity" \in DOMAIN params, ToxicityRolls) :
           /\ environment' = setParameters(environment, params, nr, tr)
           /\ given' = [ params |-> params, nrolls |-> nr, trolls |-> tr ]
    /\ calls' = calls + 1
    /\ lastOp' = "setEnvironmentParameters"
    /\ outcome' = "ok"
    /\ pass' = NoPass
    /\ UNCHANGED <<bacteria, initialBacteriaParams, initialPopulation, running,
                   speed, nextId, sample, advances, snapshot, births>>

\* Simulation.setInitialBacteriaParameters(params): { ...old, ...params }
SetInitialBacteriaParameters ==
    /\ calls < MaxCalls
    /\ \E params \in BacteriaParamInputs :
         initialBacteriaParams' =
            [k \in DOMAIN initialBacteriaParams \cup DOMAIN params |->
                IF k \in DOMAIN params THEN params[k] ELSE initialBacteriaParams[k]]
    /\ calls' = calls + 1
    /\ lastOp' = "setInitialBacteriaParameters"
    /\ outcome' = "ok"
    /\ pass' = NoPass
    /\ UNCHANGED <<bacteria, environment, initialPopulation, running, speed,
                   nextId, sample, advances,
                   given, snapshot, births>>

\* Simulation.setInitialPopulation(size)
SetInitialPopulation ==
    /\ calls < MaxCalls
    /\ \E size \in PopulationInputs : initialPopulation' = size
    /\ calls' = calls + 1
    /\ lastOp' = "setInitialPopulation"
    /\ outcome' = "ok"
    /\ pass' = NoPass
    /\ UNCHANGED <<bacteria, environment, initialBacteriaParams, running, speed,
                   nextId, sample, advances,
                   given, snapshot, births>>

Next ==
    \/ Start
    \/ Pause
    \/ Reset
    \/ SetSpeed
    \/ Update
    \/ SetEnvironmentParameters
    \/ SetInitialBacteriaParameters
    \/ SetInitialPopulation

Spec == Init /\ [][Next]_vars

-----------------------------------------------------------------------------
(* The Environment on its own: update, setParameters and the two samplers  *)
(* called directly with arrays and coordinates of the caller's choice      *)

MaxEnvGeneration == 2

MaxEnvCalls == 1

\* an array of n bacteria built by the Bacterium constructor
Colony(n, options) == [i \in 1..n |-> Bacterium(options, i, <<50, 50>>)]

BalancedOptions ==
    [ x |-> 0, y |-> 0, size |-> 500, speed |-> 100, metabolism |-> 100,
      resistance |-> 100, lifespan |-> 10000, mutationRate |-> 10 ]

LargeSlowOptions ==
    [ x |-> 0, y |-> 0, size |-> 800, speed |-> 70, metabolism |-> 150,
      resistance |-> 120, lifespan |-> 12000, mutationRate |-> 8 ]

\* arguments of Environment.update
EnvPopulations == {0, 10, 20, 30, 50}

\* arguments of Environment.setParameters: a new extent, new base levels, a
\* new nutrient base alone, the base levels the environment already has,
\* and the parameters that no field depends on
EnvParamInputs ==
    EnvironmentParamInputs \cup
    { [ nutrients |-> 800 ],
      [ nutrients |-> 500, toxicity |-> 0 ],
      [ temperature |-> 3000, pH |-> 600, antibiotics |-> 50,
        carryingCapacity |-> 150 ] }

\* arguments of getNutrientAt and getToxicityAt
SamplePoints ==
    { <<40000, 30000>>, <<-500, 30000>>, <<40000, -500>>, <<80500, 60500>> }

\* new Environment(options)
EnvInit ==
    /\ \E ep \in InitEnvironmentParams, rolls \in GridRolls :
         environment = Environment(ep, rolls[1], rolls[2])
    /\ bacteria = << >>
    /\ initialBacteriaParams = NoParams
    /\ initialPopulation = 0
    /\ running = FALSE
    /\ speed = 100
    /\ nextId = 1
    /\ lastOp = "constructor"
    /\ outcome = "ok"
    /\ pass = NoPass
    /\ sample = NoSample
    /\ calls = 0
    /\ advances = << >>
    /\ given = NoGiven
    /\ snapshot = NoSnapshot
    /\ births = << >>

\* Environment.update(bacteria)
EnvUpdate ==
    /\ environment.generation < MaxEnvGeneration
    /\ \E n \in EnvPopulations :
         LET bs == Colony(n, BalancedOptions) IN
         /\ \E nr \in RollsIf((environment.generation + 1) % 100 = 0, NutrientRolls),
               tr \in RollsIf((environment.generation + 1) % 150 = 0, ToxicityRolls) :
              /\ environment' = EnvironmentUpdate(environment, bs, nr, tr)
              /\ given' = [ params |-> NoParams, nrolls |-> nr, trolls |-> tr ]
         /\ advances' = Append(advances, Advance(bs))
    /\ lastOp' = "Environment.update"
    /\ outcome' = "ok"
    /\ sample' = NoSample
    /\ UNCHANGED <<bacteria, initialBacteriaParams, initialPopulation, running,
                   speed, nextId, pass, calls, snapshot, births>>

\* Environment.setParameters(params)
EnvSetParameters ==
    /\ calls < MaxEnvCalls
    /\ \E params \in EnvParamInputs :
         \E nr \in RollsIf("nutrients" \in DOMAIN params, NutrientRolls),
            tr \in RollsIf("toxicity" \in DOMAIN params, ToxicityRolls) :
           /\ environment' = setParameters(environment, params, nr, tr)
           /\ given' = [ params |-> params, nrolls |-> nr, trolls |-> tr ]
    /\ calls' = calls + 1
    /\ lastOp' = "Environment.setParameters"
    /\ outcome' = "ok"
    /\ sample' = NoSample
    /\ UNCHANGED <<bacteria, initialBacteriaParams, initialPopulation, running,
                   speed, nextId, pass, advances, snapshot, births>>

\* what one call of a sampler did: the indices it computed and what came of
\* reading grid[gridX][gridY]
Sampling(kind, dist, x, y) ==
    [ kind |-> kind, x |-> x, y |-> y,
      gridX |-> GridIndex(x, dist.cellWidth, dist.gridSize),
      gridY |-> GridIndex(y, dist.cellHeight, dist.gridSize),
      value |-> IF SampleThrows(dist, x, y) THEN Undefined
                ELSE SampleValue(dist, x, y) ]

\* Environment.getNutrientAt(x, y)
GetNutrientAt ==
    /\ \E p \in SamplePoints :
         /\ sample' = Sampling("nutrient", environment.nutrientDistribution, p[1], p[2])
         /\ outcome' = IF SampleThrows(environment.nutrientDistribution, p[1], p[2])
                       THEN "TypeError" ELSE "ok"
    /\ lastOp' = "getNutrientAt"
    /\ UNCHANGED <<bacteria, environment, initialBacteriaParams, initialPopulation,
                   running, speed, nextId, pass, calls, advances,
                   given, snapshot, births>>

\* Environment.getToxicityAt(x, y)
GetToxicityAt ==
    /\ \E p \in SamplePoints :
         /\ sample' = Sampling("toxicity", environment.toxicityDistribution, p[1], p[2])
         /\ outcome' = IF SampleThrows(environment.toxicityDistribution, p[1], p[2])
                       THEN "TypeError" ELSE "ok"
    /\ lastOp' = "getToxicityAt"
    /\ UNCHANGED <<bacteria, environment, initialBacteriaParams, initialPopulation,
                   running, speed, nextId, pass, calls, advances,
                   given, snapshot, births>>

EnvNext ==
    \/ EnvUpdate
    \/ EnvSetParameters
    \/ GetNutrientAt
    \/ GetToxicityAt

EnvSpec == EnvInit /\ [][EnvNext]_vars

-----------------------------------------------------------------------------
(* The Environment of a fixed extent: update is called with an empty or a  *)
(* full array, setParameters with arguments that name no width or height   *)

ClimatePopulations == {0, 50}

ClimateParamInputs == { p \in EnvParamInputs : "width" \notin DOMAIN p }

\* Environment.update(bacteria)
ClimateUpdate ==
    /\ EnvUpdate
    /\ advances'[Len(advances')].n \in ClimatePopulations

\* Environment.setParameters(params)
ClimateSetParameters ==
    /\ EnvSetParameters
    /\ given'.params \in ClimateParamInputs

ClimateNext ==
    \/ ClimateUpdate
    \/ ClimateSetParameters

ClimateSpec == EnvInit /\ [][ClimateNext]_vars

-----------------------------------------------------------------------------
(* Long runs of Environment.update: the histories beyond their limit       *)

MaxHistGeneration == 1003

HistFree == 1

\* the arrays given to Environment.update
HistColonies ==
    { << >>, Colony(1, BalancedOptions),
      Colony(1, BalancedOptions) \o Colony(1, LargeSlowOptions) }

\* The array of the call that makes generation gen: any of HistColonies in
\* the first HistFree calls and from the call that fills the history on,
\* alternating non-empty arrays in between
HistInputs(gen) ==
    IF gen <= HistFree \/ gen >= PopulationHistoryLimit THEN HistColonies
    ELSE IF gen % 2 = 0 THEN { Colony(1, BalancedOptions) }
    ELSE { Colony(1, BalancedOptions) \o Colony(1, LargeSlowOptions) }

\* new Environment()
HistInit ==
    /\ environment = Environment(NoParams, "plain", "plain")
    /\ bacteria = << >>
    /\ initialBacteriaParams = NoParams
    /\ initialPopulation = 0
    /\ running = FALSE
    /\ speed = 100
    /\ nextId = 1
    /\ lastOp = "constructor"
    /\ outcome = "ok"
    /\ pass = NoPass
    /\ sample = NoSample
    /\ calls = 0
    /\ advances = << >>
    /\ given = NoGiven
    /\ snapshot = NoSnapshot
    /\ births = << >>

\* Environment.update(bacteria)
HistUpdate ==
    /\ environment.generation < MaxHistGeneration
    /\ \E bs \in HistInputs(environment.generation + 1) :
         /\ \E nr \in RollsIf((environment.generation + 1) % 100 = 0, {"plain"}),
               tr \in RollsIf((environment.generation + 1) % 150 = 0, {"plain"}) :
              environment' = EnvironmentUpdate(environment, bs, nr, tr)
         /\ advances' = Append(advances, Advance(bs))
    /\ lastOp' = "Environment.update"
    /\ outcome' = "ok"
    /\ UNCHANGED <<bacteria, initialBacteriaParams, initialPopulation, running,
                   speed, nextId, pass, sample, calls,
                   given, snapshot, births>>

HistNext == HistUpdate

HistSpec == HistInit /\ [][HistNext]_vars

-----------------------------------------------------------------------------
(* A caller that keeps one value returned by getState while the            *)
(* simulation goes on                                                      *)

\* state = simulation.getState()
GetState ==
    /\ ~snapshot.taken
    /\ LET state == getState(bacteria, environment, running, speed)
       IN  snapshot' = [ taken |-> TRUE, at |-> state, now |-> state ]
    /\ lastOp' = "getState"
    /\ outcome' = "ok"
    /\ pass' = NoPass
    /\ UNCHANGED <<bacteria, environment, initialBacteriaParams, initialPopulation,
                   running, speed, nextId, sample, calls, advances, given,
                   births>>

\* Simulation.start(), called on a stopped simulation
SnapStart ==
    /\ ~running
    /\ Start

\* Simulation.update(), called on a running simulation
SnapUpdate ==
    /\ running
    /\ Update

SnapNext ==
    \/ SnapStart
    \/ GetState
    \/ SnapUpdate

SnapSpec == Init /\ [][SnapNext]_vars

-----------------------------------------------------------------------------
(* One Bacterium on its own: update and reproduce called directly.         *)
(* bacteria holds the agent, followed by the offspring that the last       *)
(* reproduce call returned, if it returned one                             *)

MaxAgentAge == 4

ShortLivedOptions == [BalancedOptions EXCEPT !.lifespan = 300]

\* an agent that burns 60 units of energy a step and resists little
VoraciousOptions ==
    [ x |-> 0, y |-> 0, size |-> 2000, speed |-> 100, metabolism |-> 300,
      resistance |-> 50, lifespan |-> 10000, mutationRate |-> 10 ]

AgentOptions == { BalancedOptions, LargeSlowOptions, ShortLivedOptions, VoraciousOptions }

\* mutationRate as the constructor leaves it (0 keeps the value of the
\* options), or assigned to the field afterwards
AgentMutationRates == {0, 100}

\* the environment objects handed to update: the defaults, and a hot, toxic
\* place without nutrients
AgentEnvironments ==
    { [ width |-> 80000, height |-> 60000, temperature |-> 5000, pH |-> 700,
        nutrients |-> 500, toxicity |-> 0 ],
      [ width |-> 80000, height |-> 60000, temperature |-> 10000, pH |-> 700,
        nutrients |-> 0, toxicity |-> 100 ] }

\* what births records of a reproduce call of agent b that returns an offspring
Birth(b) == [ id |-> b.id, age |-> b.age ]

\* b = new Bacterium(options), then possibly b.mutationRate = rate
AgentInit ==
    /\ \E options \in AgentOptions, rate \in AgentMutationRates, assigned \in BOOLEAN :
         LET b == Bacterium(options, 1, <<50, 50>>)
         IN  bacteria = << IF assigned THEN [b EXCEPT !.mutationRate = rate] ELSE b >>
    /\ environment = Environment(NoParams, "plain", "plain")
    /\ initialBacteriaParams = NoParams
    /\ initialPopulation = 0
    /\ running = FALSE
    /\ speed = 100
    /\ nextId = 2
    /\ lastOp = "constructor"
    /\ outcome = "ok"
    /\ pass = NoPass
    /\ sample = NoSample
    /\ calls = 0
    /\ advances = << >>
    /\ given = NoGiven
    /\ snapshot = NoSnapshot
    /\ births = << >>

\* b.update(environment); given records the argument, the draws of move and
\* the value returned
AgentUpdate ==
    /\ bacteria[1].age < MaxAgentAge
    /\ \E env \in AgentEnvironments, d \in AgentDraws :
         \E u \in { BacteriumUpdate(bacteria[1], env, d.m) } :
           /\ bacteria' = << u.b >>
           /\ given' = [ params |-> env, nrolls |-> "plain", trolls |-> "plain",
                         draws |-> d.m, returned |-> u.alive ]
    /\ lastOp' = "Bacterium.update"
    /\ outcome' = "ok"
    /\ UNCHANGED <<environment, initialBacteriaParams, initialPopulation, running,
                   speed, nextId, pass, sample, calls, advances, snapshot,
                   births>>

\* b.reproduce(environment): null, or the offspring
AgentReproduce ==
    /\ \E d \in AgentDraws :
         LET b == bacteria[1] IN
         IF canReproduce(b)
         THEN /\ bacteria' = << reproduceParent(b), reproduceChild(b, nextId, d.r) >>
              /\ nextId' = nextId + 1
              /\ births' = Append(births, Birth(b))
         ELSE /\ bacteria' = << b >>
              /\ nextId' = nextId
              /\ births' = births
    /\ lastOp' = "Bacterium.reproduce"
    /\ outcome' = "ok"
    /\ UNCHANGED <<environment, initialBacteriaParams, initialPopulation, running,
                   speed, pass, sample, calls, advances, given, snapshot>>

AgentNext ==
    \/ AgentUpdate
    \/ AgentReproduce

AgentSpec == AgentInit /\ [][AgentNext]_vars

-----------------------------------------------------------------------------
(* A lineage: an agent reproduces, its offspring reproduces, and so on.    *)
(* bacteria holds the youngest descendant                                  *)

MaxLineage == 12

\* the founder's options: balanced, large and slow, small and stable
SmallStableOptions ==
    [ x |-> 0, y |-> 0, size |-> 200, speed |-> 20, metabolism |-> 50,
      resistance |-> 50, lifespan |-> 5000, mutationRate |-> 1 ]

LineageOptions == { BalancedOptions, LargeSlowOptions, SmallStableOptions }

Shrink == [t \in TraitNames |-> <<0, 0>>]

Grow == [t \in TraitNames |-> <<0, 99>>]

\* draws of one reproduce call: no mutation, every trait mutated downwards
\* as far as it goes, every trait mutated upwards as far as it goes
LineageDraws ==
    { [ jitter |-> <<50, 50>>, mut |-> NoMutation, v |-> <<50, 50>> ],
      [ jitter |-> <<50, 50>>, mut |-> Shrink, v |-> <<50, 50>> ],
      [ jitter |-> <<50, 50>>, mut |-> Grow, v |-> <<50, 50>> ] }

\* b = new Bacterium(options)
LineageInit ==
    /\ \E options \in LineageOptions : bacteria = << Bacterium(options, 1, <<50, 50>>) >>
    /\ environment = Environment(NoParams, "plain", "plain")
    /\ initialBacteriaParams = NoParams
    /\ initialPopulation = 0
    /\ running = FALSE
    /\ speed = 100
    /\ nextId = 2
    /\ lastOp = "constructor"
    /\ outcome = "ok"
    /\ pass = NoPass
    /\ sample = NoSample
    /\ calls = 0
    /\ advances = << >>
    /\ given = NoGiven
    /\ snapshot = NoSnapshot
    /\ births = << >>

\* b = b.reproduce(environment), for a b that has just been constructed
Descend ==
    /\ nextId <= MaxLineage
    /\ canReproduce(bacteria[1])
    /\ \E d \in LineageDraws : bacteria' = << reproduceChild(bacteria[1], nextId, d) >>
    /\ nextId' = nextId + 1
    /\ births' = Append(births, Birth(bacteria[1]))
    /\ lastOp' = "descend"
    /\ outcome' = "ok"
    /\ UNCHANGED <<environment, initialBacteriaParams, initialPopulation, running,
                   speed, pass, sample, calls, advances, given, snapshot>>

LineageNext == Descend

LineageSpec == LineageInit /\ [][LineageNext]_vars

-----------------------------------------------------------------------------
(* One well-fed Bacterium over many steps: update and reproduce called     *)
(* directly, in any order.  bacteria holds the agent, followed by the      *)
(* offspring that the last reproduce call returned, if it returned one     *)

MaxCooldownAge == 42

\* the environment object handed to update and reproduce: the defaults
FertileEnvironment ==
    [ width |-> 80000, height |-> 60000, temperature |-> 5000, pH |-> 700,
      nutrients |-> 500, toxicity |-> 0 ]

\* the draws of move (no turn) and of reproduce (no mutation)
SteadyDraws ==
    [ m |-> <<50, 50, 50>>,
      r |-> [ jitter |-> <<50, 50>>, mut |-> NoMutation, v |-> <<50, 50>> ] ]

\* b = new Bacterium(options)
CooldownInit ==
    /\ \E options \in { BalancedOptions, LargeSlowOptions } :
         bacteria = << Bacterium(options, 1, <<50, 50>>) >>
    /\ environment = Environment(NoParams, "plain", "plain")
    /\ initialBacteriaParams = NoParams
    /\ initialPopulation = 0
    /\ running = FALSE
    /\ speed = 100
    /\ nextId = 2
    /\ lastOp = "constructor"
    /\ outcome = "ok"
    /\ pass = NoPass
    /\ sample = NoSample
    /\ calls = 0
    /\ advances = << >>
    /\ given = NoGiven
    /\ snapshot = NoSnapshot
    /\ births = << >>

\* b.update(environment)
CooldownUpdate ==
    /\ bacteria[1].age < MaxCooldownAge
    /\ bacteria' = << BacteriumUpdate(bacteria[1], FertileEnvironment, SteadyDraws.m).b >>
    /\ lastOp' = "Bacterium.update"
    /\ outcome' = "ok"
    /\ UNCHANGED <<environment, initialBacteriaParams, initialPopulation, running,
                   speed, nextId, pass, sample, calls, advances, given, snapshot,
                   births>>

\* b.reproduce(environment): null, or the offspring
CooldownReproduce ==
    /\ LET b == bacteria[1] IN
       IF canReproduce(b)
       THEN /\ bacteria' = << reproduceParent(b), reproduceChild(b, nextId, SteadyDraws.r) >>
            /\ nextId' = nextId + 1
            /\ births' = Append(births, Birth(b))
       ELSE /\ bacteria' = << b >>
            /\ nextId' = nextId
            /\ births' = births
    /\ lastOp' = "Bacterium.reproduce"
    /\ outcome' = "ok"
    /\ UNCHANGED <<environment, initialBacteriaParams, initialPopulation, running,
                   speed, pass, sample, calls, advances, given, snapshot>>

CooldownNext ==
    \/ CooldownUpdate
    \/ CooldownReproduce

CooldownSpec == CooldownInit /\ [][CooldownNext]_vars

-----------------------------------------------------------------------------
(* Long runs of Simulation.update from an empty population with the        *)
(* default parameters: the cadence of the fields and the statistics        *)

MaxLongGeneration == 301

\* new Simulation({ initialPopulation: 0 })
LongInit ==
    /\ environment = Environment(NoParams, "plain", "plain")
    /\ initialBacteriaParams = NoParams
    /\ initialPopulation = 0
    /\ running = FALSE
    /\ speed = 100
    /\ bacteria = initializePopulation(0, NoParams, environment, 1, << >>)
    /\ nextId = 1
    /\ lastOp = "constructor"
    /\ outcome = "ok"
    /\ pass = NoPass
    /\ sample = NoSample
    /\ calls = 0
    /\ advances = << >>
    /\ given = NoGiven
    /\ snapshot = NoSnapshot
    /\ births = << >>

\* Simulation.start(), called on a stopped simulation
LongStart ==
    /\ ~running
    /\ Start

\* Simulation.pause(), called on a running simulation
LongPause ==
    /\ running
    /\ Pause

\* Simulation.update(), for at most MaxLongGeneration generations
LongUpdate ==
    /\ running => environment.generation < MaxLongGeneration
    /\ UpdateStep

LongNext ==
    \/ LongStart
    \/ LongPause
    \/ LongUpdate

LongSpec == LongInit /\ [][LongNext]_vars

-----------------------------------------------------------------------------
(* Properties                                                              *)

populationHistory == environment.statistics.populationHistory

averageTraits == environment.statistics.averageTraits

extinctionEvents == environment.statistics.extinctionEvents

\* the events a run of advances should have logged: one for each advance
\* after the first whose predecessor recorded more than 10 and whose own
\* population is at most half of that
RECURSIVE ExpectedExtinctions(_, _)
ExpectedExtinctions(adv, i) ==
    IF i < 2 THEN << >>
    ELSE LET before == ExpectedExtinctions(adv, i - 1)
             prev == adv[i - 1].n
             cur == adv[i].n
         IN  IF prev > 10 /\ cur * 2 <= prev
             THEN Append(before, [ generation |-> i, previousPopulation |-> prev,
                                   currentPopulation |-> cur ])
             ELSE before

\* C1: Environment.update logs an extinction event exactly when the
\* population recorded by the previous advance was greater than 10 and the
\* current population is at most half of it (50 then 20 logs one event
\* {previousPopulation: 50, currentPopulation: 20}; 50 then 30 logs none).
C1_ExtinctionLogged ==
    extinctionEvents = ExpectedExtinctions(advances, Len(advances))

\* C2: within one Simulation.update pass, reproduce is attempted for a
\* surviving agent only if the number of agents retained plus spawned so far
\* in that pass is still below carryingCapacity.
C2_CumulativeGate ==
    pass.ran => \A i \in DOMAIN pass.attempts : pass.attempts[i] < pass.capacity

\* C3: Simulation.update called while the simulation is stopped changes
\* nothing: the agents, the generation, the statistics and both grids stay
\* as they were.
C3_StoppedUpdateNoOp ==
    [][(lastOp' = "update" /\ ~running)
         => (bacteria' = bacteria /\ environment' = environment)]_vars

C3_Witness ==
    /\ lastOp = "update"
    /\ ~running
    /\ environment.generation > 0
    /\ Len(bacteria) > 0

\* C4: getNutrientAt(x, y) and getToxicityAt(x, y) are total: for every x
\* and y the cell indices used are within 0..gridSize-1 and a value of the
\* grid is returned without throwing.
C4_SamplingTotal ==
    sample.kind # "none" =>
        /\ sample.gridX \in 0..(gridSize - 1)
        /\ sample.gridY \in 0..(gridSize - 1)
        /\ outcome = "ok"
        /\ sample.value # Undefined

\* C5: no sequence of start, pause, update, reset and setter calls reaches a
\* state in which update fails at runtime.
C5_UpdateNeverFails ==
    lastOp = "update" => outcome = "ok"

\* C6: in every reachable state every agent of the live collection has a
\* position inside the environment extent.
C6_PositionsInsideExtent ==
    \A i \in DOMAIN bacteria :
        /\ 0 <= bacteria[i].x /\ bacteria[i].x <= environment.width
        /\ 0 <= bacteria[i].y /\ bacteria[i].y <= environment.height

\* C7: after every Simulation.update the live collection contains only
\* viable agents: alive, with energy > 0 and age < lifespan.
C7_OnlyViableAgents ==
    pass.ran =>
        \A i \in DOMAIN bacteria :
            /\ bacteria[i].alive
            /\ Lt(0, bacteria[i].energy)
            /\ bacteria[i].age * SC < bacteria[i].lifespan

\* the last n elements of a sequence, all of it when it is shorter
LastN(s, n) == IF Len(s) <= n THEN s ELSE SubSeq(s, Len(s) - n + 1, Len(s))

NonEmptyAdvance(a) == a.n > 0

AdvancedPopulations == [i \in 1..Len(advances) |-> advances[i].n]

AdvancedMeans(t) ==
    LET adv == SelectSeq(advances, NonEmptyAdvance)
    IN  [i \in 1..Len(adv) |-> adv[i].mean[TraitIndex(t)]]

\* C8: populationHistory and each of the six trait histories hold at most
\* 1000 entries and are always the most recent (up to 1000) values pushed,
\* in insertion order: the oldest entry is the one removed.
C8_HistoriesKeepNewest ==
    /\ Len(populationHistory) <= 1000
    /\ populationHistory = LastN(AdvancedPopulations, 1000)
    /\ \A t \in TraitNames :
         /\ Len(averageTraits[t]) <= 1000
         /\ averageTraits[t] = LastN(AdvancedMeans(t), 1000)

C8_Witness ==
    /\ Len(advances) > 1000
    /\ Len(SelectSeq(advances, NonEmptyAdvance)) > 1000
    /\ advances[1].n # advances[2].n

\* C9: after a running Simulation.update the last entry of
\* populationHistory is the size of the collection at the start of that
\* step, before its deaths and births.
C9_HistoryRecordsStartCount ==
    pass.ran =>
        /\ Len(populationHistory) > 0
        /\ Last(populationHistory) = pass.startCount

C9_Witness ==
    /\ pass.ran
    /\ outcome = "ok"
    /\ pass.startCount > 0
    /\ Len(bacteria) # pass.startCount

\* C10: Simulation.reset preserves every current environment parameter:
\* temperature, pH, nutrients, toxicity, antibiotics, carryingCapacity,
\* width and height are after reset what they were before it.
C10_ResetPreservesParameters ==
    [][lastOp' = "reset" => \A k \in ParamNames : environment'[k] = environment[k]]_vars

nutrientDistribution == environment.nutrientDistribution

toxicityDistribution == environment.toxicityDistribution

\* C12: after any sequence of setParameters calls the cellWidth and
\* cellHeight stored with each field are the current width / gridSize and
\* height / gridSize.
C12_CellsMatchExtent ==
    /\ nutrientDistribution.cellWidth = environment.width \div gridSize
    /\ nutrientDistribution.cellHeight = environment.height \div gridSize
    /\ toxicityDistribution.cellWidth = environment.width \div gridSize
    /\ toxicityDistribution.cellHeight = environment.height \div gridSize

ExtentChanges ==
    environment'.width # environment.width \/ environment'.height # environment.height

\* C13: setParameters replaces the nutrient field exactly when the nutrient
\* base or the extent changes, and the toxicity field exactly when the
\* toxicity base or the extent changes.
C13_RegeneratesIffChanged ==
    [][lastOp' = "Environment.setParameters" =>
         /\ (nutrientDistribution' # nutrientDistribution)
              <=> (environment'.nutrients # environment.nutrients \/ ExtentChanges)
         /\ (toxicityDistribution' # toxicityDistribution)
              <=> (environment'.toxicity # environment.toxicity \/ ExtentChanges)]_vars

FieldFreeParams == {"temperature", "pH", "antibiotics", "carryingCapacity"}

\* C14: a setParameters call whose argument holds only temperature, pH,
\* antibiotics and carryingCapacity leaves both grids, the generation and
\* all statistics as they were.
C14_ClimateLeavesFields ==
    [][(lastOp' = "Environment.setParameters"
          /\ DOMAIN given'.params \subseteq FieldFreeParams) =>
         /\ nutrientDistribution' = nutrientDistribution
         /\ toxicityDistribution' = toxicityDistribution
         /\ environment'.generation = environment.generation
         /\ environment'.statistics = environment.statistics]_vars

C14_Witness ==
    /\ lastOp = "Environment.setParameters"
    /\ DOMAIN given.params = FieldFreeParams
    /\ environment.temperature = given.params.temperature
    /\ environment.carryingCapacity = given.params.carryingCapacity
    /\ nutrientDistribution.grid.rolls = "patchy"
    /\ toxicityDistribution.grid.rolls = "hotspots"
    /\ Len(populationHistory) > 0

\* C15: in a running Simulation.update step the nutrient field is replaced
\* by a newly generated one exactly when the new generation is a multiple
\* of 100, the toxicity field exactly when it is a multiple of 150; in
\* every other step both grids are unchanged.
C15_RegenerationCadence ==
    [][(lastOp' = "update" /\ running) =>
         /\ nutrientDistribution' =
              IF environment'.generation % 100 = 0
              THEN generateNutrientDistribution(environment, given'.nrolls)
              ELSE nutrientDistribution
         /\ toxicityDistribution' =
              IF environment'.generation % 150 = 0
              THEN generateToxicityDistribution(environment, given'.trolls)
              ELSE toxicityDistribution]_vars

C15_Witness ==
    /\ lastOp = "update"
    /\ environment.generation = 300
    /\ nutrientDistribution.grid.rolls = "patchy"
    /\ toxicityDistribution.grid.rolls = "hotspots"

\* C20: from an initial population of 0 with the default parameters every
\* running update completes without failure with the population still 0:
\* each one appends 0 to populationHistory, nothing to a trait history and
\* no extinction event.
C20_EmptyPopulationRuns ==
    /\ outcome = "ok"
    /\ bacteria = << >>
    /\ environment.generation = Len(advances)
    /\ populationHistory = [i \in 1..Len(advances) |-> 0]
    /\ \A t \in TraitNames : averageTraits[t] = << >>
    /\ extinctionEvents = << >>

C20_Witness ==
    /\ lastOp = "update"
    /\ running
    /\ environment.generation >= 100
    /\ Len(populationHistory) = environment.generation

\* C16: Bacterium.reproduce returns no offspring when the agent is not
\* alive, its reproductionCooldown is above 0 or its energy is below 50, and
\* then leaves the agent's energy, cooldown, age, position, velocity and
\* traits as they were.
C16_FailedReproduceChangesNothing ==
    [][(lastOp' = "Bacterium.reproduce"
          /\ (\/ ~bacteria[1].alive
              \/ bacteria[1].reproductionCooldown > 0
              \/ Lt(bacteria[1].energy, 50 * SC)))
         => bacteria' = << bacteria[1] >>]_vars

C16_Witness ==
    /\ lastOp = "Bacterium.reproduce"
    /\ Len(bacteria) = 1
    /\ bacteria[1].alive
    /\ bacteria[1].reproductionCooldown > 0
    /\ bacteria[1].age > 0

\* C17: an agent whose mutationRate is 0 hands its trait vector to its
\* offspring unchanged: every trait of the offspring returned by reproduce,
\* mutationRate included, is the parent's.
C17_ZeroRateOffspringInherits ==
    [][(lastOp' = "Bacterium.reproduce"
          /\ bacteria[1].mutationRate = 0
          /\ Len(bacteria') = 2)
         => \A t \in TraitNames : bacteria'[2][t] = bacteria[1][t]]_vars

\* C19: the simulation is stopped after construction, start always leaves
\* it running and pause always leaves it stopped, and no other operation
\* (update, reset, the setters) changes the running flag, not even an update
\* that empties the population.
C19_OnlyStartAndPauseSwitch ==
    /\ (lastOp = "constructor" => ~running)
    /\ [][/\ lastOp' = "start" => running'
          /\ lastOp' = "pause" => ~running'
          /\ lastOp' \notin {"start", "pause"} => running' = running]_vars

C19_Witness ==
    /\ lastOp = "update"
    /\ running
    /\ pass.ran
    /\ pass.startCount > 0
    /\ bacteria = << >>

\* C18: a value returned by getState is a snapshot: whatever updates follow,
\* everything read from it (the agent list and the agents' fields,
\* populationHistory, the trait histories, extinctionEvents, the generation
\* and the parameters) is what it was when the value was returned.
C18_SnapshotImmutable ==
    snapshot.taken => snapshot.now = snapshot.at

C22_TraitsStayPositive ==
    \A i \in DOMAIN bacteria : \A t \in TraitNames : Lt(0, bacteria[i][t])

C22_Witness ==
    /\ lastOp = "descend"
    /\ bacteria[1].id = MaxLineage
    /\ bacteria[1].mutationRate = 8
    /\ bacteria[1].size < 100

\* the environment handed to the last Bacterium.update is at the optimum:
\* temperature 50, pH 7, local toxicity 0
AtOptimum(env) ==
    env.temperature = 50 * SC /\ env.pH = 7 * SC /\ env.toxicity = 0

\* C23: at temperature 50, pH 7 and local toxicity 0 each of
\* calculateTemperatureFactor, calculatePHFactor and calculateToxicityFactor
\* is exactly 1 whatever the resistance, and the energy that the update
\* consumes is exactly size * metabolism.
C23_OptimumFactorsAreOne ==
    [][(lastOp' = "Bacterium.update" /\ bacteria[1].alive /\ AtOptimum(given'.params)) =>
         LET b == bacteria[1]
             env == given'.params
         IN  /\ calculateTemperatureFactor(b, env.temperature) = SC
             /\ calculatePHFactor(b, env.pH) = SC
             /\ calculateToxicityFactor(b, env.toxicity) = SC
             /\ bacteria'[1].energy =
                  b.energy - Mul(b.size, b.metabolism) + absorbNutrients(b, env.nutrients)]_vars

C23_Witness ==
    /\ lastOp = "Bacterium.update"
    /\ AtOptimum(given.params)
    /\ bacteria[1].resistance = 50
    /\ bacteria[1].age = 1
    /\ bacteria[1].energy = 100 * SC - 60 * SC + 100 * SC

\* size * metabolism * tempFactor * pHFactor * toxicityFactor
Consumption(b, env) ==
    Mul(Mul(Mul(Mul(b.size, b.metabolism),
                calculateTemperatureFactor(b, env.temperature)),
            calculatePHFactor(b, env.pH)),
        calculateToxicityFactor(b, env.toxicity))

Motion(b) == <<b.x, b.y, b.vx, b.vy>>

\* C24: Bacterium.update on an alive agent adds 1 to age, makes energy
\* energy - consumption + absorbed, and then sets alive to false and returns
\* false exactly when that energy is <= 0 or that age is >= lifespan;
\* otherwise it moves the agent and returns true.  On an agent that is not
\* alive it returns false and changes nothing.
C24_UpdateAgesFeedsAndJudges ==
    [][lastOp' = "Bacterium.update" =>
         LET b == bacteria[1]
             after == bacteria'[1]
             env == given'.params
             dies == Le(after.energy, 0) \/ after.age * SC >= b.lifespan
         IN  IF ~b.alive
             THEN after = b /\ ~given'.returned
             ELSE /\ after.age = b.age + 1
                  /\ after.energy = Add(Sub(b.energy, Consumption(b, env)),
                                        absorbNutrients(b, env.nutrients))
                  /\ after.alive = ~dies
                  /\ given'.returned = ~dies
                  /\ \A t \in TraitNames : after[t] = b[t]
                  /\ Motion(after) = IF dies THEN Motion(b)
                                     ELSE Motion(move(b, env, given'.draws))]_vars

C24_Witness ==
    /\ lastOp = "Bacterium.update"
    /\ ~given.returned
    /\ ~bacteria[1].alive
    /\ bacteria[1].energy < 0
    /\ bacteria[1].age = 2
    /\ bacteria[1].age * SC < bacteria[1].lifespan
    /\ bacteria[1].y # 0

\* C25: the agents spawned in a Simulation.update pass are not updated in
\* that pass: at its end each of them has age 0, energy 100 and cooldown 0,
\* and none of them has reproduced (every offspring of the pass comes from
\* an agent that was in the collection when the pass began).
C25_SpawnedNotUpdated ==
    pass.ran =>
        /\ pass.spawned \cap pass.updated = {}
        /\ Cardinality(pass.spawned) <= pass.startCount
        /\ \A i \in DOMAIN bacteria :
             bacteria[i].id \in pass.spawned =>
                 /\ bacteria[i].alive
                 /\ bacteria[i].age = 0
                 /\ bacteria[i].energy = 100 * SC
                 /\ bacteria[i].reproductionCooldown = 0

C25_Witness ==
    /\ pass.ran
    /\ outcome = "ok"
    /\ Cardinality(pass.spawned) = 2
    /\ \E i, j \in DOMAIN bacteria :
         /\ bacteria[i].id \in pass.spawned
         /\ bacteria[i].age = 0
         /\ bacteria[j].id \in pass.updated
         /\ bacteria[j].age = 1
         /\ bacteria[j].reproductionCooldown = 20

\* C26: between resets the generation is the number of update calls made
\* while running: each of them adds exactly 1 to generation and exactly one
\* entry to populationHistory whatever the stored speed, setSpeed changes
\* the speed field only, and no operation changes an entry that
\* populationHistory already holds.
C26_OneGenerationPerRunningUpdate ==
    [][/\ environment'.generation = Len(advances')
       /\ (lastOp' = "update" /\ running) =>
              /\ environment'.generation = environment.generation + 1
              /\ populationHistory' = LastN(Append(populationHistory, Len(bacteria)),
                                            PopulationHistoryLimit)
       /\ lastOp' = "setSpeed" =>
              /\ UNCHANGED <<bacteria, environment, initialBacteriaParams,
                             initialPopulation, running>>
       /\ (lastOp' # "reset" /\ ~(lastOp' = "update" /\ running)) =>
              /\ environment'.generation = environment.generation
              /\ populationHistory' = populationHistory]_vars

C26_Witness ==
    /\ lastOp = "update"
    /\ running
    /\ speed = 2 * SC
    /\ environment.generation = 2
    /\ Len(populationHistory) = 2
    /\ populationHistory[1] # populationHistory[2]

Max(a, b) == IF a >= b THEN a ELSE b

\* C27: agents are born only in a pass whose starting population is below
\* carryingCapacity, and a pass at most doubles the population; so a pass
\* that starts at or above the capacity does not grow the population, and
\* with the capacity C kept as constructed a population that started with N
\* agents never exceeds max(N, 2 * (C - 1)).
C27_CapacityBoundsGrowth ==
    /\ pass.ran =>
          /\ pass.spawned # {} => pass.startCount < pass.capacity
          /\ Len(bacteria) <= 2 * pass.startCount
          /\ pass.startCount >= pass.capacity => Len(bacteria) <= pass.startCount
    /\ calls = 0 =>
          Len(bacteria) <= Max(initialPopulation, 2 * (environment.carryingCapacity - 1))

C27_Witness ==
    /\ pass.ran
    /\ calls = 0
    /\ pass.capacity = 3
    /\ pass.startCount = 4
    /\ Len(bacteria) = 4
    /\ \E i \in DOMAIN bacteria :
         /\ bacteria[i].age = 1
         /\ canReproduce(bacteria[i])

\* C28: the reproductionCooldown of every agent is always within 0..20; a
\* reproduce call that succeeds multiplies the parent's energy by 0.7, sets
\* its cooldown to 20 and returns exactly one offspring; and two successful
\* reproduce calls of one agent are at least 20 update steps apart.
C28_TwentyStepsBetweenBirths ==
    [][/\ \A i \in DOMAIN bacteria' : bacteria'[i].reproductionCooldown \in 0..20
       /\ births' # births =>
              /\ bacteria'[1].energy = Mul(bacteria[1].energy, 70)
              /\ bacteria'[1].reproductionCooldown = 20
              /\ Len(bacteria') = 2
              /\ nextId' = nextId + 1
              /\ Len(births') = Len(births) + 1
       /\ \A k \in 2..Len(births') :
              births'[k].id = births'[k - 1].id =>
                  births'[k].age - births'[k - 1].age >= 20]_vars

C28_Witness ==
    /\ lastOp = "Bacterium.reproduce"
    /\ Len(births) = 3
    /\ births[2].age - births[1].age = 20
    /\ births[3].age - births[2].age > 20
    /\ bacteria[1].reproductionCooldown = 20

\* C29: every agent leaves the collection while the simulation is stepped:
\* each running update adds 1 to the age of every agent that was in the
\* collection and is still in it, and the collection it leaves holds no
\* agent whose age has reached its lifespan, whatever its energy.
C29_AgentsAgeOut ==
    [][(lastOp' = "update" /\ running) =>
         /\ \A i \in DOMAIN bacteria' :
              bacteria'[i].age * SC < bacteria'[i].lifespan
         /\ \A i \in DOMAIN bacteria', j \in DOMAIN bacteria :
              bacteria'[i].id = bacteria[j].id =>
                  bacteria'[i].age = bacteria[j].age + 1]_vars

\* C30: the six trait histories always have the same length, which is at
\* most the length of populationHistory; an Environment.update given a
\* non-empty population appends exactly one entry (the mean) to each of the
\* six, and one given an empty population appends to none of them.
C30_TraitHistoriesInStep ==
    [][/\ \A t \in TraitNames :
            /\ Len(averageTraits'[t]) = Len(averageTraits'.size)
            /\ Len(averageTraits'[t]) <= Len(populationHistory')
       /\ lastOp' = "Environment.update" =>
            \A t \in TraitNames :
                averageTraits'[t] =
                    IF Last(advances').n > 0
                    THEN LastN(Append(averageTraits[t],
                                      Last(advances').mean[TraitIndex(t)]),
                               TraitHistoryLimit)
                    ELSE averageTraits[t]]_vars

C30_Witness ==
    /\ lastOp = "Environment.update"
    /\ environment.generation = 3
    /\ advances[1].n = 0
    /\ advances[3].n = 2
    /\ Len(populationHistory) = 3
    /\ Len(averageTraits.lifespan) = 2
    /\ averageTraits.lifespan[1] # averageTraits.lifespan[2]

=============================================================================
